---- MODULE Spec2Model ----
(***************************************************************************)
(* A model of sweagent/agent/agents.py: the Agent runtime that parses,     *)
(* guards, splits and dispatches model output, its bounded format/blocklist*)
(* retry, the recursive subroutine call and the checkpoint replay.         *)
(*                                                                         *)
(* A text (a Python str) is a sequence of characters, each a string of     *)
(* length one; offsets count characters as in Python.                      *)
(***************************************************************************)
EXTENDS Integers, Sequences, FiniteSets, TLC

NL == "\n"
SP == " "

IsWs(c) == c \in {NL, SP}

\* F(v) with the value v computed once: a local variable of the code.
With(v, F(_)) == CHOOSE r \in {F(x) : x \in {v}} : TRUE

\* Python's t[a:b] for 0 <= a (0-based, half open, b cut to the length).
Slice(t, a, b) ==
    LET e == IF b > Len(t) THEN Len(t) ELSE b
    IN  IF a >= e THEN << >> ELSE SubSeq(t, a + 1, e)

\* Python's t[a:]
SliceFrom(t, a) == Slice(t, a, Len(t))

\* bool(t.strip()): the text holds a token that is not white space.
NonBlank(t) == \E i \in 1..Len(t) : ~IsWs(t[i])

\* The offsets of the first and after the last token that is not white space.
FirstInk(t) == CHOOSE i \in 0..Len(t) :
                  /\ \A k \in 1..i : IsWs(t[k])
                  /\ (i = Len(t) \/ ~IsWs(t[i + 1]))
LastInk(t) == CHOOSE i \in 0..Len(t) :
                  /\ \A k \in (i + 1)..Len(t) : IsWs(t[k])
                  /\ (i = 0 \/ ~IsWs(t[i]))

\* str.strip()
Strip(t) == IF NonBlank(t) THEN Slice(t, FirstInk(t), LastInk(t)) ELSE << >>

\* "\n".join(parts)
RECURSIVE JoinNL(_)
JoinNL(parts) ==
    IF Len(parts) = 0 THEN << >>
    ELSE IF Len(parts) = 1 THEN parts[1]
    ELSE parts[1] \o <<NL>> \o JoinNL(Tail(parts))

\* t.split("\n")[0]
FirstLine(t) ==
    IF \E i \in 1..Len(t) : t[i] = NL
    THEN Slice(t, 0, (CHOOSE i \in 1..Len(t) : t[i] = NL /\ \A k \in 1..(i - 1) : t[k] # NL) - 1)
    ELSE t

\* t.split()[0] of a text that is not blank
FirstWord(t) ==
    LET a == FirstInk(t)
        b == CHOOSE e \in a..Len(t) :
                /\ \A k \in (a + 1)..e : ~IsWs(t[k])
                /\ (e = Len(t) \/ IsWs(t[e + 1]))
    IN  Slice(t, a, b)

\* sub in t
Contains(t, sub) == \E a \in 0..(Len(t) - Len(sub)) : Slice(t, a, a + Len(sub)) = sub

\* The name is written in t at offset n.
NameAt(t, name, n) == Slice(t, n, n + Len(name)) = name

(***************************************************************************)
(* The regular expressions of _parse_command_patterns, by what re.search   *)
(* does with them.  Names and end markers hold no white space.             *)
(***************************************************************************)

\* The regex anchor $ under re.MULTILINE at offset p.
Dollar(t, p) == p = Len(t) \/ t[p + 1] = NL

\* The offset after the longest run of white space that starts at offset p.
WsFwd(t, p) == CHOOSE e \in p..Len(t) :
                  /\ \A k \in (p + 1)..e : IsWs(t[k])
                  /\ (e = Len(t) \/ ~IsWs(t[e + 1]))

\* The offset where the longest run of white space that ends at offset n starts.
WsBack(t, n) == CHOOSE b \in 0..n :
                  /\ \A k \in (b + 1)..n : IsWs(t[k])
                  /\ (b = 0 \/ ~IsWs(t[b]))

\* ^\s*(name): the leftmost line start from which only white space leads to the
\* name written at offset n; -1 when there is none.
MatchStart(t, n) ==
    LET b == WsBack(t, n)
        starts == {s \in b..n : s = 0 \/ t[s] = NL}
    IN  IF starts = {} THEN -1
        ELSE CHOOSE s \in starts : \A s2 \in starts : s <= s2

\* The end of the line that holds offset p.
LineEnd(t, p) == CHOOSE e \in p..Len(t) :
                   /\ Dollar(t, e)
                   /\ \A k \in (p + 1)..e : t[k] # NL

NoMatch == [start |-> -1, end |-> -1, g1 |-> << >>, g2 |-> << >>, g3 |-> << >>]

\* ^\s*(name)\s*(.*?)$ with re.MULTILINE, tried with the name at offset n.
SingleLineAt(t, name, n) ==
    LET s == MatchStart(t, n)
        p == WsFwd(t, n + Len(name))
        e == LineEnd(t, p)
    IN  IF ~NameAt(t, name, n) \/ s < 0 THEN NoMatch
        ELSE [start |-> s, end |-> e, g1 |-> name, g2 |-> Slice(t, p, e), g3 |-> << >>]

\* ^\s*(submit)(\s*)$ with re.MULTILINE, tried with the name at offset n.
SubmitAt(t, name, n) ==
    LET s == MatchStart(t, n)
        p == WsFwd(t, n + Len(name))
        ends == {q \in (n + Len(name))..p : Dollar(t, q)}
        e == CHOOSE q \in ends : \A q2 \in ends : q2 <= q
    IN  IF ~NameAt(t, name, n) \/ s < 0 \/ ends = {} THEN NoMatch
        ELSE [start |-> s, end |-> e, g1 |-> name,
              g2 |-> Slice(t, n + Len(name), e), g3 |-> << >>]

\* ^\s*(name)\s*(.*?)^(end_name)\s*$ with re.DOTALL | re.MULTILINE, tried with the
\* name at offset n: the first end marker at a line start that only white
\* space separates from an end of line closes the block.
BlockAt(t, name, end_name, n) ==
    LET s == MatchStart(t, n)
        p == WsFwd(t, n + Len(name))
        Tails(m) == {q \in (m + Len(end_name))..WsFwd(t, m + Len(end_name)) : Dollar(t, q)}
        marks == {m \in p..(Len(t) - Len(end_name)) :
                     /\ NameAt(t, end_name, m)
                     /\ m > 0 /\ t[m] = NL
                     /\ Tails(m) # {}}
        m == CHOOSE x \in marks : \A y \in marks : x <= y
        e == CHOOSE q \in Tails(m) : \A q2 \in Tails(m) : q2 <= q
    IN  IF ~NameAt(t, name, n) \/ s < 0 \/ marks = {} THEN NoMatch
        ELSE [start |-> s, end |-> e, g1 |-> name,
              g2 |-> Slice(t, p, m), g3 |-> end_name]

\* pat.search(t): the match of the leftmost attempt that succeeds.
Search(t, At(_, _)) ==
    LET hits == {n \in 0..(Len(t) - 1) : At(t, n).start >= 0}
    IN  IF hits = {} THEN NoMatch
        ELSE At(t, CHOOSE n \in hits : \A n2 \in hits : n <= n2)

(***************************************************************************)
(* The configuration of the modelled agent: the commands ls, search_repo   *)
(* (single line) and edit ... end_edit (block), the subroutine sub_a       *)
(* (single line) and the submit command, which declares no end marker.     *)
(***************************************************************************)
LS == <<"l", "s">>
SEARCH_REPO == <<"s", "e", "a", "r", "c", "h", "_", "r", "e", "p", "o">>
EDIT == <<"e", "d", "i", "t">>
END_EDIT == <<"e", "n", "d", "_", "e", "d", "i", "t">>
SUB_A == <<"s", "u", "b", "_", "a">>
SUBMIT == <<"s", "u", "b", "m", "i", "t">>

submit_command == SUBMIT

\* config._commands, in table order: name, end_name (the empty text for None)
Commands == << [name |-> LS, end_name |-> << >>],
               [name |-> SEARCH_REPO, end_name |-> << >>],
               [name |-> EDIT, end_name |-> END_EDIT] >>

\* config._subroutines, in table order
Subroutines == << [name |-> SUB_A, end_name |-> << >>] >>

SubroutineNames == {Subroutines[i].name : i \in 1..Len(Subroutines)}

\* config.multi_line_command_endings: the names of the block commands
multi_line_command_endings ==
    {Commands[i].name : i \in {k \in 1..Len(Commands) : Commands[k].end_name # << >>}}

\* One compiled pattern: the key under which the table holds it, and its regex.
\* The submit pattern is the last entry of both tables.
Compile(c) == [key |-> c.name, name |-> c.name, end_name |-> c.end_name,
               kind |-> IF c.end_name # << >> THEN "block" ELSE "single"]

submit_pat == [key |-> submit_command, name |-> submit_command, end_name |-> << >>,
               kind |-> "submit"]

command_patterns ==
    [i \in 1..Len(Commands) |-> Compile(Commands[i])] \o <<submit_pat>>

\* A single-line subroutine is stored under the key (name,), a tuple, which is
\* no member of multi_line_command_endings; its regex is the usual one.
subroutine_patterns ==
    [i \in 1..Len(Subroutines) |->
        IF Subroutines[i].end_name = << >>
        THEN [Compile(Subroutines[i]) EXCEPT !.key = <<Subroutines[i].name>>]
        ELSE Compile(Subroutines[i])] \o <<submit_pat>>

\* pat.search(t)
PatSearch(pat, t) ==
    IF pat.kind = "block"
    THEN Search(t, LAMBDA x, n : BlockAt(x, pat.name, pat.end_name, n))
    ELSE IF pat.kind = "submit"
    THEN Search(t, LAMBDA x, n : SubmitAt(x, pat.name, n))
    ELSE Search(t, LAMBDA x, n : SingleLineAt(x, pat.name, n))

\* Agent._get_first_match: the match with the smallest start among the patterns
\* of the view, NoMatch for None.  The view "multi_line" adds a dict to a dict
\* with +=, which raises TypeError: TypeErrorMatch stands for the raise.
TypeErrorMatch == [start |-> -2, end |-> -2, g1 |-> <<"TypeError">>, g2 |-> << >>, g3 |-> << >>]
ValueErrorMatch == [start |-> -2, end |-> -2, g1 |-> <<"ValueError">>, g2 |-> << >>, g3 |-> << >>]

\* The matches are sorted by their start, and sorted() is stable: of two matches
\* with the same start the one of the earlier pattern comes first.
FirstOf(patterns, t) ==
    LET matches == [i \in 1..Len(patterns) |-> PatSearch(patterns[i], t)]
        found == {i \in 1..Len(patterns) : matches[i].start >= 0}
        best == CHOOSE i \in found :
                   \A j \in found :
                      \/ matches[i].start < matches[j].start
                      \/ /\ matches[i].start = matches[j].start
                         /\ i <= j
    IN  IF found = {} THEN NoMatch ELSE matches[best]

get_first_match(action, pattern_type) ==
    IF pattern_type = "subroutine" THEN FirstOf(subroutine_patterns, action)
    ELSE IF pattern_type = "multi_line" THEN TypeErrorMatch
    ELSE IF pattern_type = "multi_line_no_subroutines"
    THEN FirstOf(SelectSeq(command_patterns,
                           LAMBDA p : p.key \in multi_line_command_endings), action)
    ELSE ValueErrorMatch

\* f"<< '{eof}'"
HereDoc(eof) == <<"<", "<", SP, "'">> \o eof \o <<"'">>

\* s.endswith(suffix)
EndsWith(s, suffix) ==
    Len(s) >= Len(suffix) /\ Slice(s, Len(s) - Len(suffix), Len(s)) = suffix

\* Agent._guard_multiline_input: one turn of the while loop for a match that
\* was found, with the parts collected so far.
GuardTurn(rem_action, parsed_action, first_match) ==
    LET pre_action == Slice(rem_action, 0, first_match.start)
        match_action == Slice(rem_action, first_match.start, first_match.end)
        p1 == IF NonBlank(pre_action)
              THEN Append(parsed_action, pre_action) ELSE parsed_action
        eof == Strip(first_match.g3)
        \* match_action[first_match.start:]: the offset into rem_action is
        \* used as an offset into the match
        guarded_command == SliceFrom(match_action, first_match.start)
        first_line == FirstLine(guarded_command)
        replaced == first_line \o <<SP>> \o HereDoc(eof)
                      \o SliceFrom(guarded_command, Len(first_line))
    IN  IF ~NonBlank(match_action) THEN p1
        ELSE IF ~EndsWith(Strip(FirstLine(match_action)), HereDoc(eof))
        THEN Append(p1, replaced)
        ELSE Append(p1, match_action)

\* Agent._guard_multiline_input: the while loop.
RECURSIVE GuardLoop(_, _)
GuardLoop(rem_action, parsed_action) ==
    IF ~NonBlank(rem_action) THEN parsed_action
    ELSE With(get_first_match(rem_action, "multi_line_no_subroutines"),
              LAMBDA first_match :
                IF first_match.start >= 0
                THEN With(SliceFrom(rem_action, first_match.end),
                          LAMBDA rest :
                            With(GuardTurn(rem_action, parsed_action, first_match),
                                 LAMBDA parsed : GuardLoop(rest, parsed)))
                ELSE Append(parsed_action, rem_action))

guard_multiline_input(action) ==
    With(action, LAMBDA a : JoinNL(GuardLoop(a, << >>)))

\* The value None of cmd_name and args.
None == <<"None">>

\* SplitTurn with the text before the match left out of the result.
SplitTurn_DropsPreAction(name, rem_action, parsed_action, first_match) ==
    LET match_action == Slice(rem_action, first_match.start, first_match.end)
    IN  IF ~NonBlank(match_action) THEN parsed_action
        ELSE IF FirstWord(match_action) = submit_command
        THEN Append(parsed_action, [agent |-> name, action |-> match_action,
                                    cmd_name |-> first_match.g1, args |-> << >>])
        ELSE Append(parsed_action, [agent |-> first_match.g1, action |-> match_action,
                                    cmd_name |-> first_match.g1, args |-> first_match.g2])

\* Agent.split_actions: one turn of the while loop for a match that was found,
\* with the actions collected so far.  name is self.name.
SplitTurn(name, rem_action, parsed_action, first_match) ==
    LET pre_action == Slice(rem_action, 0, first_match.start)
        match_action == Slice(rem_action, first_match.start, first_match.end)
        p1 == IF NonBlank(pre_action)
              THEN Append(parsed_action,
                          [agent |-> name, action |-> pre_action,
                           cmd_name |-> None, args |-> << >>])
              ELSE parsed_action
    IN  IF ~NonBlank(match_action) THEN p1
        ELSE IF FirstWord(match_action) = submit_command
        THEN Append(p1, [agent |-> name, action |-> match_action,
                         cmd_name |-> first_match.g1, args |-> << >>])
        ELSE Append(p1, [agent |-> first_match.g1, action |-> match_action,
                         cmd_name |-> first_match.g1, args |-> first_match.g2])

\* Agent.split_actions: the while loop.  A TypeError or ValueError of
\* _get_first_match ends the split with the raise as its only element.
RECURSIVE SplitLoop(_, _, _, _)
SplitLoop(name, rem_action, pattern_type, parsed_action) ==
    IF ~NonBlank(rem_action) THEN parsed_action
    ELSE With(get_first_match(rem_action, pattern_type),
              LAMBDA first_match :
                IF first_match.start = -2
                THEN << [agent |-> first_match.g1, action |-> << >>,
                         cmd_name |-> <<"raise">>, args |-> << >>] >>
                ELSE IF first_match.start >= 0
                THEN With(SliceFrom(rem_action, first_match.end),
                          LAMBDA rest :
                            With(SplitTurn(name, rem_action, parsed_action, first_match),
                                 LAMBDA parsed :
                                   SplitLoop(name, rest, pattern_type, parsed)))
                ELSE Append(parsed_action, [agent |-> name, action |-> rem_action,
                                            cmd_name |-> None, args |-> << >>]))

split_actions(name, action, pattern_type) ==
    With(action, LAMBDA a : SplitLoop(name, a, pattern_type, << >>))

(***************************************************************************)
(* The blocklist of the modelled configuration and should_block_action.    *)
(***************************************************************************)
VIM == <<"v", "i", "m">>
PYTHON == <<"p", "y", "t", "h", "o", "n">>

blocklist == {VIM}
blocklist_standalone == {PYTHON}

\* should_block_action with a standalone name blocked whatever follows it.
should_block_action_IgnoresArguments(action) ==
    IF ~NonBlank(action) THEN FALSE
    ELSE LET name == FirstWord(action)
         IN  name \in blocklist \/ name \in blocklist_standalone

\* Agent.should_block_action
should_block_action(action) ==
    IF ~NonBlank(action) THEN FALSE
    ELSE LET name == FirstWord(action)
         IN  \/ name \in blocklist
             \/ (name \in blocklist_standalone /\ name = Strip(action))

(***************************************************************************)
(* The sentinel actions and the handlers of forward_with_error_check.      *)
(***************************************************************************)
EXIT_FORMAT == <<"e", "x", "i", "t", "_", "f", "o", "r", "m", "a", "t">>
EXIT_ERROR == <<"e", "x", "i", "t", "_", "e", "r", "r", "o", "r">>
EXIT_CONTEXT == <<"e", "x", "i", "t", "_", "c", "o", "n", "t", "e", "x", "t">>
EXIT_COST == <<"e", "x", "i", "t", "_", "c", "o", "s", "t">>
EXIT_API == <<"e", "x", "i", "t", "_", "a", "p", "i">>

\* The except clauses of forward_with_error_check: the action returned for an
\* exception, or Reraise when the exception leaves the function.
Reraise == <<"reraise">>

\* forward_with_error_check without the handler of CostLimitExceededError.
forward_with_error_check_NoCostHandler(exc) ==
    IF exc = "KeyboardInterrupt" THEN Reraise
    ELSE IF exc = "RuntimeError" THEN EXIT_ERROR
    ELSE IF exc = "ContextWindowExceededError" THEN EXIT_CONTEXT
    ELSE IF exc = "RetryError" THEN EXIT_API
    ELSE Reraise

\* forward_with_error_check with the interrupt caught by the handler of
\* RuntimeError.
forward_with_error_check_CatchesInterrupt(exc) ==
    IF exc \in {"KeyboardInterrupt", "RuntimeError"} THEN EXIT_ERROR
    ELSE IF exc = "ContextWindowExceededError" THEN EXIT_CONTEXT
    ELSE IF exc = "CostLimitExceededError" THEN EXIT_COST
    ELSE IF exc = "RetryError" THEN EXIT_API
    ELSE Reraise

forward_with_error_check(exc) ==
    IF exc = "KeyboardInterrupt" THEN Reraise
    ELSE IF exc = "RuntimeError" THEN EXIT_ERROR
    ELSE IF exc = "ContextWindowExceededError" THEN EXIT_CONTEXT
    ELSE IF exc = "CostLimitExceededError" THEN EXIT_COST
    ELSE IF exc = "RetryError" THEN EXIT_API
    ELSE Reraise

\* The parse step of check_format_and_requery: what the try block around
\* parse_function makes of its outcome.
parse_outcome(raises_format_error, interrupted) ==
    IF interrupted THEN "raise"
    ELSE IF raises_format_error THEN "format_fail"
    ELSE "parsed"

\* retry_allowed with a budget for each class of failure.
retry_allowed_PerClass(format_fails, blocklist_fails) ==
    format_fails <= 2 /\ blocklist_fails <= 2

\* The condition of the while loop of check_format_and_requery.
retry_allowed(format_fails, blocklist_fails) == format_fails + blocklist_fails <= 2

(***************************************************************************)
(* The inputs of a run: what the model may answer to a query, what the     *)
(* environment may answer to a step, and the checkpoint files.             *)
(***************************************************************************)
MAIN == <<"m", "a", "i", "n">>

T_LS == LS
T_BATCH == LS \o <<NL>> \o SUBMIT \o <<NL>> \o LS
T_SUB == SUB_A \o <<SP, "x">>
T_SEARCH == SEARCH_REPO \o <<SP, "t">>
T_EDIT == EDIT \o <<NL, "x", NL>> \o END_EDIT
T_SEARCH_SUBMIT == T_SEARCH \o <<NL>> \o SUBMIT

\* The action texts the model proposes.
ModelActions == {T_LS, T_BATCH, T_SUB, T_SEARCH, T_EDIT, T_SEARCH_SUBMIT, VIM}

\* The exceptions model.query raises.
QueryExceptions == {"RuntimeError", "ContextWindowExceededError",
                    "CostLimitExceededError", "RetryError", "KeyboardInterrupt"}

\* An answer of model.query: an output that parses into an action, an output
\* that does not parse, or an exception.
ModelAnswers ==
    {[exc |-> "none", parses |-> TRUE, action |-> a] : a \in ModelActions}
    \cup {[exc |-> "none", parses |-> FALSE, action |-> << >>]}
    \cup {[exc |-> e, parses |-> FALSE, action |-> << >>] : e \in QueryExceptions}

\* An answer of env.step or env.communicate: the observation and the done flag.
OBS == <<"o">>
EnvAnswers == [obs : {<< >>, OBS}, done : BOOLEAN]

\* The observation handed to run() of the root runtime.
INITIAL_OBS == <<"i">>

SystemEntry(name) ==
    [role |-> "system", agent |-> name, action |-> None, content |-> "system"]
UserEntry(name, content) ==
    [role |-> "user", agent |-> name, action |-> None, content |-> content]
AssistantEntry(name, action) ==
    [role |-> "assistant", agent |-> name, action |-> action, content |-> "output"]

\* setup(), lines 93-105: an entry of a demonstration carries is_demo.
DemoEntry(name) ==
    [role |-> "user", agent |-> name, action |-> None, content |-> "demonstration",
     is_demo |-> TRUE]

\* entry.get("is_demo", False)
IsDemo(entry) == "is_demo" \in DOMAIN entry /\ entry.is_demo

\* The trajectory and history a live run of MAIN leaves behind after the given
\* actions: one step per action, a user and an assistant turn per step.
RECURSIVE RecordedHistory(_)
RecordedHistory(actions) ==
    IF Len(actions) = 0 THEN <<SystemEntry(MAIN)>>
    ELSE RecordedHistory(SubSeq(actions, 1, Len(actions) - 1))
           \o <<UserEntry(MAIN, "prompt"), AssistantEntry(MAIN, actions[Len(actions)])>>

Recorded(actions) ==
    [trajectory |-> [i \in 1..Len(actions) |-> [action |-> actions[i], observation |-> OBS]],
     history |-> RecordedHistory(actions),
     model_stats |-> Len(actions)]

\* A checkpoint cut off after the user turn of the cost exit: its history lacks
\* the assistant turn of the last step.
Truncated(c) == [c EXCEPT !.history = SubSeq(c.history, 1, Len(c.history) - 1)]

NoCheckpoint == [trajectory |-> << >>, history |-> << >>, model_stats |-> -1]

\* config.swe_agent_checkpoint_path: None, or a file with one of these contents.
Checkpoints ==
    { NoCheckpoint,
      Recorded(<<T_LS>>),
      Recorded(<<T_LS, T_BATCH>>),
      Recorded(<<T_LS, EXIT_COST>>),
      Recorded(<<EXIT_COST, EXIT_COST>>),
      Recorded(<<T_SUB>>),
      Truncated(Recorded(<<EXIT_COST>>)) }

\* The length of the trajectories the model follows.
MaxSteps == 2

VARIABLES
    frames,     \* the call stack of runtimes, the root first
    env_steps,  \* the calls of env.step in order: the text and the done flag answered
    saved,      \* the persisted trajectory file
    queries,    \* the number of answered model queries
    live,       \* whether the live loop of the root was entered
    raised,     \* the exception that left run() of the root, "none" before
    result,     \* what run() of the root returned
    env,        \* the shared environment: the values of the configured
                \* environment variables and the working directory
    cfg,        \* the configuration of the run
    text        \* one action text and what the text functions make of it

vars == <<frames, env_steps, saved, queries, live, raised, result, env, cfg, text>>

NoContext == [active |-> FALSE, search_term |-> << >>, context |-> << >>]

\* Agent.__init__ and the arguments of run(): a runtime about to run.
NewFrame(name, traj_dir, observation, return_type, init_model_stats, use_checkpoint) ==
    [name |-> name, traj_dir |-> traj_dir, observation |-> observation,
     return_type |-> return_type, init_model_stats |-> init_model_stats,
     use_checkpoint |-> use_checkpoint,
     pc |-> "start", mode |-> "live", done |-> FALSE, last_container_id |-> "None",
     history |-> << >>, stats |-> 0, trajectory |-> << >>, info |-> -1,
     codegraph_context |-> NoContext, action |-> None, output_parses |-> FALSE,
     output_action |-> << >>, format_fails |-> 0, blocklist_fails |-> 0,
     parses |-> 0, requeries |-> 0, query_exc |-> "none", interrupted |-> FALSE,
     returncode |-> 0, message |-> None, env_vars |-> None, cwd |-> None,
     steps |-> << >>, queue |-> << >>, observations |-> << >>, iters |-> 0]

\* The working directory of a fresh container.
ROOT_DIR == <<"/">>

\* config.env_variables of a runtime: the main agent and the subroutine
\* configure the same variable names with values of their own, named here by
\* the runtime that configured them.
env_variables(name) == name

\* init_environment_vars, lines 459-460, with set_environment_vars, lines
\* 462-475: the configured variables of the runtime are set in the environment.
init_environment_vars(e, name) == [e EXCEPT !.vars = env_variables(name)]

\* get_environment_vars, lines 510-516: the values the environment holds for
\* the variables the runtime configures.
get_environment_vars(e) == e.vars

\* An action text before any text function is applied to it, and no text.
TextOf(action) ==
    [pc |-> "action", action |-> action, guarded |-> None, reguarded |-> None,
     pattern_type |-> "none", split |-> << >>, blocked |-> FALSE]

NoText == [TextOf(<< >>) EXCEPT !.pc = "none"]

Init ==
    /\ cfg \in [checkpoint : Checkpoints, traj_dir : BOOLEAN]
    /\ frames = <<NewFrame(MAIN, cfg.traj_dir, INITIAL_OBS, "info_trajectory", -1,
                           cfg.checkpoint # NoCheckpoint)>>
    /\ env_steps = << >>
    /\ saved = [written |-> FALSE, trajectory |-> << >>]
    /\ queries = 0
    /\ live = FALSE
    /\ raised = "none"
    /\ result = [returned |-> FALSE, info |-> -1, trajectory |-> << >>]
    /\ env = [vars |-> None, cwd |-> ROOT_DIR]
    /\ text = NoText

Depth == Len(frames)
Top == frames[Depth]
Running == Depth > 0 /\ raised = "none"

SetTop(f) == [frames EXCEPT ![Depth] = f]

\* An exception that no handler catches unwinds every runtime on the stack and
\* leaves run() of the root: neither run() nor call_subroutine has a handler.
Unwind(fs) == [i \in 1..Len(fs) |-> [fs[i] EXCEPT !.pc = "raised"]]

Raise(fs, exc) ==
    /\ frames' = Unwind(fs)
    /\ raised' = exc

CONTAINER_ID == "c1"

\* run(), lines 581-592: the environment variables are set when the container
\* changed; set_environment_vars raises RuntimeError on a nonzero return code and
\* re-raises an interrupt.
RunStart ==
    /\ Running /\ Top.pc = "start"
    /\ \E outcome \in {"ok", "RuntimeError", "KeyboardInterrupt"} :
         IF CONTAINER_ID # Top.last_container_id /\ outcome # "ok"
         THEN /\ Raise(SetTop([Top EXCEPT !.interrupted = (outcome = "KeyboardInterrupt")]),
                       outcome)
              /\ UNCHANGED env
         ELSE /\ frames' = SetTop([Top EXCEPT !.last_container_id = CONTAINER_ID,
                                              !.pc = "setup"])
              /\ env' = IF CONTAINER_ID # Top.last_container_id
                        THEN init_environment_vars(env, Top.name) ELSE env
              /\ UNCHANGED raised
    /\ UNCHANGED <<env_steps, saved, queries, live, result, cfg, text>>

\* model.reset_stats(other): the given stats, or fresh ones for None.
reset_stats(other) == IF other = -1 THEN 0 ELSE other

\* Agent.setup without demonstrations: the stats are reset and the history is
\* the system message.
Setup ==
    /\ Running /\ Top.pc = "setup"
    /\ frames' = SetTop([Top EXCEPT !.stats = reset_stats(Top.init_model_stats),
                                    !.history = <<SystemEntry(Top.name)>>,
                                    !.pc = "path"])
    /\ UNCHANGED <<env_steps, saved, queries, live, raised, result, env, cfg, text>>

\* TrajPath with a path that is built only when traj_dir is given.
TrajPath_WithoutTrajDir ==
    /\ Running /\ Top.pc = "path"
    /\ frames' = SetTop([Top EXCEPT !.trajectory = << >>, !.info = -1,
                                    !.codegraph_context = NoContext,
                                    !.pc = "load"])
    /\ UNCHANGED <<env_steps, saved, queries, live, raised, result, env, cfg, text>>

\* run(), lines 600-604: traj_dir / (instance_id + ".traj") raises TypeError when
\* traj_dir is None.
TrajPath ==
    /\ Running /\ Top.pc = "path"
    /\ IF ~Top.traj_dir
       THEN Raise(frames, "TypeError")
       ELSE /\ frames' = SetTop([Top EXCEPT !.trajectory = << >>, !.info = -1,
                                            !.codegraph_context = NoContext,
                                            !.pc = "load"])
            /\ UNCHANGED raised
    /\ UNCHANGED <<env_steps, saved, queries, live, result, env, cfg, text>>

\* LoadSteps with the history left as the checkpoint holds it.
RECURSIVE LoadSteps_KeepsHistory(_, _, _)
LoadSteps_KeepsHistory(steps, history, trajectory) ==
    IF Len(steps) = 0
    THEN [ok |-> TRUE, history |-> history, trajectory |-> trajectory]
    ELSE IF Head(steps).action = EXIT_COST
    THEN IF /\ Len(history) > 0
            /\ history[Len(history)].role = "assistant"
            /\ history[Len(history)].action = EXIT_COST
         THEN LoadSteps_KeepsHistory(Tail(steps), history, trajectory)
         ELSE [ok |-> FALSE, history |-> history, trajectory |-> trajectory]
    ELSE LoadSteps_KeepsHistory(Tail(steps), history, Append(trajectory, Head(steps)))

\* run(), lines 609-616: the recorded steps are copied, a step whose action is
\* exit_cost is skipped and takes the last history entry with it, which must be
\* the assistant turn of that action (the assert).
RECURSIVE LoadSteps(_, _, _)
LoadSteps(steps, history, trajectory) ==
    IF Len(steps) = 0
    THEN [ok |-> TRUE, history |-> history, trajectory |-> trajectory]
    ELSE IF Head(steps).action = EXIT_COST
    THEN IF /\ Len(history) > 0
            /\ history[Len(history)].role = "assistant"
            /\ history[Len(history)].action = EXIT_COST
         THEN LoadSteps(Tail(steps), SubSeq(history, 1, Len(history) - 1), trajectory)
         ELSE [ok |-> FALSE, history |-> history, trajectory |-> trajectory]
    ELSE LoadSteps(Tail(steps), history, Append(trajectory, Head(steps)))

\* run(), lines 606-619: the checkpoint replaces the history and the stats.
LoadCheckpoint ==
    /\ Running /\ Top.pc = "load"
    /\ IF ~Top.use_checkpoint
       THEN /\ frames' = SetTop([Top EXCEPT !.pc = "loop"])
            /\ UNCHANGED raised
       ELSE LET loaded == LoadSteps(cfg.checkpoint.trajectory, cfg.checkpoint.history, << >>)
            IN  IF ~loaded.ok
                THEN Raise(frames, "AssertionError")
                ELSE /\ frames' = SetTop([Top EXCEPT
                                            !.trajectory = loaded.trajectory,
                                            !.stats = cfg.checkpoint.model_stats,
                                            !.history = loaded.history,
                                            !.steps = loaded.trajectory,
                                            !.mode = "replay",
                                            !.pc = "replay"])
                     /\ UNCHANGED raised
    /\ UNCHANGED <<env_steps, saved, queries, live, result, env, cfg, text>>

\* run(), lines 621-624: the next recorded step is guarded and split; after the
\* last one the trajectory is saved (lines 632-633) and the live loop follows.
ReplayStep ==
    /\ Running /\ Top.pc = "replay"
    /\ IF Len(Top.steps) = 0
       THEN /\ frames' = SetTop([Top EXCEPT !.mode = "live", !.pc = "loop"])
            /\ saved' = IF Top.traj_dir
                        THEN [written |-> TRUE, trajectory |-> Top.trajectory]
                        ELSE saved
       ELSE /\ frames' = SetTop([Top EXCEPT
                  !.queue = split_actions(Top.name,
                                          guard_multiline_input(Head(Top.steps).action),
                                          "subroutine"),
                  !.steps = Tail(Top.steps),
                  !.pc = "replay_dispatch"])
            /\ UNCHANGED saved
    /\ UNCHANGED <<env_steps, queries, live, raised, result, env, cfg, text>>

\* One call of env.step as env_steps keeps it.
Stepped(action, ans) == [action |-> action, done |-> ans.done]

\* IsOwn with the submit command taken for a subroutine, as its place in the
\* table of the subroutine patterns suggests.
IsOwn_SubmitDelegated(f, sub_action) ==
    sub_action.agent = f.name /\ sub_action.cmd_name # submit_command

\* The test that sends a split action to the environment rather than to a
\* subroutine (lines 625 and 646).
IsOwn(f, sub_action) ==
    sub_action.agent = f.name \/ sub_action.cmd_name = submit_command

\* run(), lines 624-631: one split action of a replayed step.  The answer of
\* env.step is dropped; a submit sets done and the loops go on.
ReplayDispatch ==
    /\ Running /\ Top.pc = "replay_dispatch"
    /\ IF Len(Top.queue) = 0
       THEN /\ frames' = SetTop([Top EXCEPT !.pc = "replay"])
            /\ UNCHANGED env_steps
       ELSE LET sub_action == Head(Top.queue)
            IN  IF IsOwn(Top, sub_action)
                THEN /\ \E ans \in EnvAnswers :
                          env_steps' = Append(env_steps, Stepped(sub_action.action, ans))
                     /\ frames' = SetTop([Top EXCEPT
                            !.done = @ \/ sub_action.cmd_name = submit_command,
                            !.queue = Tail(@)])
                ELSE /\ frames' = SetTop([Top EXCEPT !.pc = "call"])
                     /\ UNCHANGED env_steps
    /\ UNCHANGED <<saved, queries, live, raised, result, env, cfg, text>>

\* select_template with the codegraph context tested before the observation.
select_template_CodegraphFirst(history, observation, codegraph_context) ==
    IF history[Len(history)].role = "system" \/ IsDemo(history[Len(history)])
    THEN "instance"
    ELSE IF codegraph_context.active THEN "codegraph"
    ELSE IF observation = None \/ ~NonBlank(observation) THEN "no_output"
    ELSE "next_step"

\* forward_model, lines 299-314: the template of the next prompt.  The runs of
\* the modelled configuration use no demonstrations.
select_template(history, observation, codegraph_context) ==
    IF history[Len(history)].role = "system" \/ IsDemo(history[Len(history)])
    THEN "instance"
    ELSE IF observation = None \/ ~NonBlank(observation) THEN "no_output"
    ELSE IF codegraph_context.active THEN "codegraph"
    ELSE "next_step"

\* forward_model, lines 299-314: the templates that are rendered into the
\* message; the strategy template follows the instance template when the
\* configuration has one.
Templates(history, observation, codegraph_context, strategy_template) ==
    LET template == select_template(history, observation, codegraph_context)
    IN  IF template = "instance" /\ strategy_template # None
        THEN <<template, "strategy">>
        ELSE <<template>>

\* The usage of one answered query added to the stats.
update_stats(stats) == stats + 1

\* forward_done with the codegraph context left as the last retrieval set it.
forward_done_KeepsContext(f, action) ==
    With(split_actions(f.name, guard_multiline_input(action), "subroutine"),
         LAMBDA queue :
           [f EXCEPT !.history = Append(@, AssistantEntry(f.name, action)),
                     !.action = action,
                     !.output_parses = FALSE, !.output_action = << >>,
                     !.format_fails = 0, !.blocklist_fails = 0,
                     !.parses = 0, !.requeries = 0,
                     !.observations = << >>,
                     !.queue = queue,
                     !.pc = IF Len(queue) = 0 THEN "record" ELSE "dispatch"])

\* forward(), lines 274-282, and run(), lines 640-645: the assistant turn is
\* appended, the codegraph context is reset, the action is guarded and split.
\* The locals of check_format_and_requery end with the call.
forward_done(f, action) ==
    With(split_actions(f.name, guard_multiline_input(action), "subroutine"),
         LAMBDA queue :
           [f EXCEPT !.history = Append(@, AssistantEntry(f.name, action)),
                     !.action = action,
                     !.output_parses = FALSE, !.output_action = << >>,
                     !.format_fails = 0, !.blocklist_fails = 0,
                     !.parses = 0, !.requeries = 0,
                     !.codegraph_context = NoContext,
                     !.observations = << >>,
                     !.queue = queue,
                     !.pc = IF Len(queue) = 0 THEN "record" ELSE "dispatch"])

\* What becomes of the runtime f when model.query gives the answer ans inside
\* forward_with_error_check: the new output to check, a sentinel action, or an
\* exception that leaves forward().
AfterQuery(f, ans) ==
    IF ans.exc = "none"
    THEN [f EXCEPT !.output_parses = ans.parses, !.output_action = ans.action,
                   !.stats = update_stats(@), !.query_exc = "none", !.pc = "check"]
    ELSE IF forward_with_error_check(ans.exc) = Reraise
    THEN [f EXCEPT !.query_exc = ans.exc,
                   !.interrupted = (ans.exc = "KeyboardInterrupt"), !.pc = "raise"]
    ELSE forward_done([f EXCEPT !.query_exc = ans.exc,
                                !.interrupted = (ans.exc = "KeyboardInterrupt")],
                      forward_with_error_check(ans.exc))

\* The frames and the exception after a step of forward() that left the top
\* runtime as f, having asked the model for ans.
Forwarded(after, ans) ==
    \E f \in {after} :
       /\ IF f.pc = "raise"
          THEN Raise(SetTop(f), ans.exc)
          ELSE /\ frames' = SetTop(f)
               /\ UNCHANGED raised
       /\ queries' = IF ans.exc = "none" /\ f.pc = "check" THEN queries + 1 ELSE queries

\* run(), lines 635-639, and forward_model: an iteration starts, the prompt is
\* appended as a user turn and the model is queried.
ForwardModel ==
    /\ Running /\ Top.pc = "loop" /\ ~Top.done /\ Len(Top.trajectory) < MaxSteps
    /\ \E ans \in ModelAnswers :
         LET template == select_template(Top.history, Top.observation,
                                         Top.codegraph_context)
             asked == [Top EXCEPT !.history = Append(@, UserEntry(Top.name, template)),
                                  !.format_fails = 0, !.blocklist_fails = 0,
                                  !.parses = 0, !.requeries = 0]
         IN  Forwarded(AfterQuery(asked, ans), ans)
    /\ live' = (live \/ Depth = 1)
    /\ UNCHANGED <<env_steps, saved, result, env, cfg, text>>

\* Requery with the usage of the answer left out of the stats.
Requery_Uncounted(f, ans) ==
    [AfterQuery([f EXCEPT !.requeries = @ + 1], ans) EXCEPT !.stats = f.stats]

\* retry_after_format_fail and retry_after_blocklist_fail: the model is queried
\* again over a temporary history; the history of the runtime is left alone.
Requery(f, ans) == AfterQuery([f EXCEPT !.requeries = @ + 1], ans)

\* check_format_and_requery for the default model identity, one pass of its
\* while loop in four cases.  parses and requeries count the calls of
\* parse_function and of the two retry functions in this call.
\* Lines 404, 422-423: the loop condition fails and the sentinel is returned.
CheckFormatExhausted ==
    /\ Running /\ Top.pc = "check"
    /\ ~retry_allowed(Top.format_fails, Top.blocklist_fails)
    /\ frames' = SetTop(forward_done(Top, EXIT_FORMAT))
    /\ UNCHANGED <<env_steps, saved, queries, live, raised, result, env, cfg, text>>

\* Lines 405-412: an interrupt during the parse is re-raised.
CheckFormatInterrupt ==
    /\ Running /\ Top.pc = "check"
    /\ retry_allowed(Top.format_fails, Top.blocklist_fails)
    /\ parse_outcome(~Top.output_parses, TRUE) = "raise"
    /\ Raise(SetTop([Top EXCEPT !.parses = @ + 1, !.interrupted = TRUE]),
             "KeyboardInterrupt")
    /\ UNCHANGED <<env_steps, saved, queries, live, result, env, cfg, text>>

\* CheckFormatRetry with the failed output and the error message appended to
\* the history of the runtime.
CheckFormatRetry_PersistsRetry ==
    /\ Running /\ Top.pc = "check"
    /\ retry_allowed(Top.format_fails, Top.blocklist_fails)
    /\ \E interrupted \in BOOLEAN :
         LET outcome == parse_outcome(~Top.output_parses, interrupted)
             f == [Top EXCEPT !.parses = @ + 1, !.interrupted = interrupted,
                              !.history = @ \o <<AssistantEntry(Top.name, Top.output_action),
                                                 UserEntry(Top.name, "error")>>]
         IN  /\ \/ outcome = "format_fail"
                \/ outcome = "parsed" /\ should_block_action(Top.output_action)
             /\ \E ans \in ModelAnswers :
                  IF outcome = "format_fail"
                  THEN Forwarded(Requery([f EXCEPT !.format_fails = @ + 1], ans), ans)
                  ELSE Forwarded(Requery([f EXCEPT !.blocklist_fails = @ + 1], ans), ans)
    /\ UNCHANGED <<env_steps, saved, live, result, env, cfg, text>>

\* Lines 413-419: a format error or a blocked action is counted and the model
\* is queried again.
CheckFormatRetry ==
    /\ Running /\ Top.pc = "check"
    /\ retry_allowed(Top.format_fails, Top.blocklist_fails)
    /\ \E interrupted \in BOOLEAN :
         LET outcome == parse_outcome(~Top.output_parses, interrupted)
             f == [Top EXCEPT !.parses = @ + 1, !.interrupted = interrupted]
         IN  /\ \/ outcome = "format_fail"
                \/ outcome = "parsed" /\ should_block_action(Top.output_action)
             /\ \E ans \in ModelAnswers :
                  IF outcome = "format_fail"
                  THEN Forwarded(Requery([f EXCEPT !.format_fails = @ + 1], ans), ans)
                  ELSE Forwarded(Requery([f EXCEPT !.blocklist_fails = @ + 1], ans), ans)
    /\ UNCHANGED <<env_steps, saved, live, result, env, cfg, text>>

\* Lines 420-421: the output parses and its action is not blocked.
CheckFormatAccept ==
    /\ Running /\ Top.pc = "check"
    /\ retry_allowed(Top.format_fails, Top.blocklist_fails)
    /\ parse_outcome(~Top.output_parses, FALSE) = "parsed"
    /\ ~should_block_action(Top.output_action)
    /\ frames' = SetTop(forward_done(Top, Top.output_action))
    /\ UNCHANGED <<env_steps, saved, queries, live, raised, result, env, cfg, text>>

\* t.split(' ')[1] exists
HasSecondField(t) == \E i \in 1..Len(t) : t[i] = SP

\* t.split(' ')[1]
SecondField(t) ==
    LET a == CHOOSE i \in 1..Len(t) : t[i] = SP /\ \A k \in 1..(i - 1) : t[k] # SP
        b == CHOOSE e \in a..Len(t) :
                /\ \A k \in (a + 1)..e : t[k] # SP
                /\ (e = Len(t) \/ t[e + 1] = SP)
    IN  Slice(t, a, b)

\* AfterOwn without the break of line 666: the for loop goes on after a submit
\* or a done answer.
AfterOwn_NoBreak(f, sub_action) ==
    LET done == f.done \/ sub_action.cmd_name = submit_command
        queue == Tail(f.queue)
    IN  [f EXCEPT !.done = done, !.queue = queue,
                  !.pc = IF Len(queue) = 0 THEN "record" ELSE "dispatch"]

\* AfterOwn with the sentinel of the format exit taken for a submit.
AfterOwn_SentinelEnds(f, sub_action) ==
    LET done == \/ f.done
                \/ sub_action.cmd_name = submit_command
                \/ sub_action.action = EXIT_FORMAT
        queue == IF done THEN << >> ELSE Tail(f.queue)
    IN  [f EXCEPT !.done = done, !.queue = queue,
                  !.pc = IF Len(queue) = 0 THEN "record" ELSE "dispatch"]

\* run(), lines 663-666: after a split action of its own the runtime sets done
\* on a submit and leaves the for loop when done.
AfterOwn(f, sub_action) ==
    LET done == f.done \/ sub_action.cmd_name = submit_command
        queue == IF done THEN << >> ELSE Tail(f.queue)
    IN  [f EXCEPT !.done = done, !.queue = queue,
                  !.pc = IF Len(queue) = 0 THEN "record" ELSE "dispatch"]

\* run(), lines 645-670: one split action of the live loop.
Dispatch ==
    /\ Running /\ Top.pc = "dispatch"
    /\ \E ans \in EnvAnswers :
         LET sub_action == Head(Top.queue)
             action == Strip(sub_action.action)
         IN  IF ~IsOwn(Top, sub_action)
             THEN /\ frames' = SetTop([Top EXCEPT !.pc = "call"])
                  /\ UNCHANGED <<env_steps, raised>>
             ELSE IF ~Contains(sub_action.action, SEARCH_REPO)
             THEN /\ env_steps' = Append(env_steps, Stepped(sub_action.action, ans))
                  /\ frames' = SetTop(AfterOwn(
                         [Top EXCEPT !.done = ans.done,
                                     !.observations = Append(@, ans.obs)], sub_action))
                  /\ UNCHANGED raised
             ELSE IF ~HasSecondField(action)
             THEN /\ Raise(frames, "IndexError")
                  /\ UNCHANGED env_steps
             ELSE /\ frames' = SetTop(AfterOwn(
                         [Top EXCEPT !.action = action,
                                     !.codegraph_context =
                                         [active |-> TRUE,
                                          search_term |-> SecondField(action),
                                          context |-> ans.obs],
                                     !.observations = Append(@, ans.obs)], sub_action))
                  /\ UNCHANGED <<env_steps, raised>>
    /\ UNCHANGED <<saved, queries, live, result, env, cfg, text>>

\* save_trajectory called only by the iteration that ends the loop.
save_trajectory_OnlyWhenDone(f, trajectory) ==
    IF f.traj_dir /\ f.done THEN [written |-> TRUE, trajectory |-> trajectory] ELSE saved

\* save_trajectory, called when traj_dir is set: the file is rewritten in full.
save_trajectory(f, trajectory) ==
    IF f.traj_dir THEN [written |-> TRUE, trajectory |-> trajectory] ELSE saved

\* run(), lines 672-689: the observations are joined, the step is recorded and
\* the trajectory is saved.
StepDone ==
    /\ Running /\ Top.pc = "record"
    /\ LET observation == JoinNL(Top.observations)
           trajectory == Append(Top.trajectory,
                                [action |-> Top.action, observation |-> observation])
       IN  /\ frames' = SetTop([Top EXCEPT !.observation = observation,
                                           !.observations = << >>,
                                           !.queue = << >>,
                                           !.trajectory = trajectory,
                                           !.info = Top.stats,
                                           !.iters = @ + 1,
                                           !.pc = "loop"])
           /\ saved' = save_trajectory(Top, trajectory)
    /\ UNCHANGED <<env_steps, queries, live, raised, result, env, cfg, text>>

\* The command of the subroutine's init_observation, formatted with the args.
InitCommand(args) == <<"c", "d", SP>> \o args

\* CallSubroutine with the return code of the initialization left unchecked.
CallSubroutine_IgnoresReturnCode ==
    /\ Running /\ Top.pc = "call"
    /\ \E returncode \in {0, 1}, init_observation \in {None, InitCommand(Head(Top.queue).args)} :
         LET sub_action == Head(Top.queue)
             agent_name == sub_action.agent
             obs == IF init_observation = None THEN None ELSE OBS
         IN  /\ env_steps' = IF init_observation # None
                             THEN Append(env_steps, [action |-> init_observation,
                                                     done |-> FALSE])
                             ELSE env_steps
             /\ frames' = Append(SetTop([Top EXCEPT !.returncode = returncode,
                                                    !.env_vars = get_environment_vars(env),
                                                    !.cwd = env.cwd,
                                                    !.pc = "in_call"]),
                                 NewFrame(agent_name, FALSE, obs,
                                          "observation", Top.stats, FALSE))
             /\ UNCHANGED raised
    /\ UNCHANGED <<saved, queries, live, result, env, cfg, text>>

\* call_subroutine, lines 518-540: the init_observation of the subroutine, when
\* it declares one, is run; a nonzero env.returncode appends a user turn and
\* raises RuntimeError with a message that holds the output; otherwise a new
\* runtime is created and run with the caller's stats and without traj_dir.
\* returncode and message keep what the caller read and raised.
CallSubroutine ==
    /\ Running /\ Top.pc = "call"
    /\ \E returncode \in {0, 1}, init_observation \in {None, InitCommand(Head(Top.queue).args)} :
         LET sub_action == Head(Top.queue)
             agent_name == sub_action.agent
             obs == IF init_observation = None THEN None ELSE OBS
         IN  /\ env_steps' = IF init_observation # None
                             THEN Append(env_steps, [action |-> init_observation,
                                                     done |-> FALSE])
                             ELSE env_steps
             /\ IF returncode # 0
                THEN Raise(SetTop([Top EXCEPT
                               !.history = Append(@, UserEntry(agent_name, "init_observation")),
                               !.returncode = returncode,
                               !.env_vars = get_environment_vars(env),
                               !.cwd = env.cwd,
                               !.message = obs]),
                           "RuntimeError")
                ELSE /\ frames' = Append(SetTop([Top EXCEPT !.returncode = returncode,
                                                            !.env_vars = get_environment_vars(env),
                                                            !.cwd = env.cwd,
                                                            !.pc = "in_call"]),
                                         NewFrame(agent_name, FALSE, obs,
                                                  "observation", Top.stats, FALSE))
                     /\ UNCHANGED raised
    /\ UNCHANGED <<saved, queries, live, result, env, cfg, text>>

\* APIStats.replace: the stats of the sub-runtime become those of the caller.
replace(mine, other) == other

\* run(), lines 691-700, and for a sub-runtime call_subroutine, lines 541-545:
\* the loop is over; the root returns info and trajectory; a sub-runtime
\* returns the field return_type of its last step to call_subroutine, which
\* splices the histories, restores the environment variables and the working
\* directory and takes over the stats.
Return ==
    /\ Running /\ Top.pc = "loop" /\ Top.done
    /\ \E outcome \in {"ok", "RuntimeError", "KeyboardInterrupt"} :
         IF Depth = 1
         THEN /\ frames' = SetTop([Top EXCEPT !.pc = "returned"])
              /\ result' = [returned |-> TRUE, info |-> Top.info,
                            trajectory |-> Top.trajectory]
              /\ UNCHANGED <<raised, env>>
         ELSE LET caller == frames[Depth - 1]
                  output == Top.trajectory[Len(Top.trajectory)].observation
                  spliced == [caller EXCEPT !.history = @ \o Top.history]
                  queue == Tail(caller.queue)
                  resumed == [spliced EXCEPT
                      !.stats = replace(@, Top.stats),
                      !.queue = queue,
                      !.observations = IF caller.mode = "live"
                                       THEN Append(@, output) ELSE @,
                      !.pc = IF caller.mode = "replay" THEN "replay_dispatch"
                             ELSE IF Len(queue) = 0 THEN "record" ELSE "dispatch"]
                  below == SubSeq(frames, 1, Depth - 2)
              IN  /\ IF outcome # "ok"
                     THEN /\ Raise(Append(below, spliced), outcome)
                          /\ UNCHANGED env
                     ELSE /\ frames' = Append(below, resumed)
                          /\ env' = [vars |-> caller.env_vars, cwd |-> caller.cwd]
                          /\ UNCHANGED raised
                  /\ UNCHANGED result
    /\ UNCHANGED <<env_steps, saved, queries, live, cfg, text>>

Next ==
    \/ RunStart
    \/ Setup
    \/ TrajPath
    \/ LoadCheckpoint
    \/ ReplayStep
    \/ ReplayDispatch
    \/ ForwardModel
    \/ CheckFormatExhausted
    \/ CheckFormatInterrupt
    \/ CheckFormatRetry
    \/ CheckFormatAccept
    \/ Dispatch
    \/ StepDone
    \/ CallSubroutine
    \/ Return

Spec == Init /\ [][Next]_vars

(***************************************************************************)
(* The text functions on their own: _guard_multiline_input, split_actions  *)
(* and should_block_action applied to the texts that up to MaxSegs         *)
(* segments make up.                                                       *)
(***************************************************************************)
\* The number of segments of the longest text.
MaxSegs == 3

Segs == << <<NL>>, <<SP>>, LS, T_EDIT, EDIT, END_EDIT, SUBMIT, T_SUB, VIM, PYTHON >>

RECURSIVE Flat(_)
Flat(ss) == IF Len(ss) = 0 THEN << >> ELSE Segs[Head(ss)] \o Flat(Tail(ss))

ActionTexts == {Flat(ss) : ss \in UNION {[1..k -> 1..Len(Segs)] : k \in 0..MaxSegs}}

PatternTypes == {"subroutine", "multi_line", "multi_line_no_subroutines"}

Idle ==
    /\ cfg = [checkpoint |-> NoCheckpoint, traj_dir |-> TRUE]
    /\ frames = << >>
    /\ env_steps = << >>
    /\ saved = [written |-> FALSE, trajectory |-> << >>]
    /\ queries = 0
    /\ live = FALSE
    /\ raised = "none"
    /\ result = [returned |-> FALSE, info |-> -1, trajectory |-> << >>]
    /\ env = [vars |-> None, cwd |-> ROOT_DIR]

\* The arguments of forward_model that the choice of the templates reads: the
\* last entry of the history, the observation, the codegraph context, and the
\* strategy template of the configuration.
LastEntries == {SystemEntry(MAIN), DemoEntry(MAIN), UserEntry(MAIN, "next_step"),
                AssistantEntry(MAIN, LS), AssistantEntry(SUB_A, LS)}
Observations == {None, << >>, <<SP, NL>>, OBS}
CodegraphContexts == {NoContext, [active |-> TRUE, search_term |-> <<"t">>, context |-> OBS]}
StrategyTemplates == {None, <<"strategy">>}

PromptOf(last, observation, codegraph_context, strategy_template) ==
    [pc |-> "prompt", last |-> last, observation |-> observation,
     codegraph_context |-> codegraph_context,
     strategy_template |-> strategy_template, templates |-> << >>]

TextInit ==
    /\ Idle
    /\ \/ text \in {TextOf(a) : a \in ActionTexts}
       \/ text \in {PromptOf(last, observation, codegraph_context, strategy_template) :
                        last \in LastEntries, observation \in Observations,
                        codegraph_context \in CodegraphContexts,
                        strategy_template \in StrategyTemplates}

\* forward_model, lines 299-314, for a history that ends with the given entry.
SelectTemplates ==
    /\ text.pc = "prompt"
    /\ text' = [text EXCEPT
                  !.templates = Templates(<<text.last>>, text.observation,
                                          text.codegraph_context,
                                          text.strategy_template),
                  !.pc = "templates"]
    /\ UNCHANGED <<frames, env_steps, saved, queries, live, raised, result, env, cfg>>

\* run(), line 644: the action of the model is guarded.
GuardMultilineInput ==
    /\ text.pc = "action"
    /\ \E g \in {guard_multiline_input(text.action)} :
         text' = [text EXCEPT !.guarded = g, !.pc = "guarded"]
    /\ UNCHANGED <<frames, env_steps, saved, queries, live, raised, result, env, cfg>>

\* _guard_multiline_input applied to a text that it returned.
GuardAgain ==
    /\ text.pc = "guarded"
    /\ \E g \in {guard_multiline_input(text.guarded)} :
         text' = [text EXCEPT !.reguarded = g, !.pc = "reguarded"]
    /\ UNCHANGED <<frames, env_steps, saved, queries, live, raised, result, env, cfg>>

\* run(), line 645: the guarded action is split, under one of the views that
\* _get_first_match names.
SplitActions ==
    /\ text.pc = "guarded"
    /\ \E pattern_type \in PatternTypes :
         \E parsed \in {split_actions(MAIN, text.guarded, pattern_type)} :
            text' = [text EXCEPT !.pattern_type = pattern_type, !.split = parsed,
                                 !.pc = "split"]
    /\ UNCHANGED <<frames, env_steps, saved, queries, live, raised, result, env, cfg>>

\* check_format_and_requery, line 417: the parsed action is tested against the
\* blocklists.
ShouldBlockAction ==
    /\ text.pc = "action"
    /\ \E b \in {should_block_action(text.action)} :
         text' = [text EXCEPT !.blocked = b, !.pc = "blocked"]
    /\ UNCHANGED <<frames, env_steps, saved, queries, live, raised, result, env, cfg>>

TextNext ==
    \/ GuardMultilineInput
    \/ GuardAgain
    \/ SplitActions
    \/ ShouldBlockAction
    \/ SelectTemplates

TextSpec == TextInit /\ [][TextNext]_vars

(***************************************************************************)
(* The properties.                                                         *)
(***************************************************************************)

\* C1: in the live loop nothing is dispatched and no model is queried once a
\* submit was dispatched or the environment answered done: the rest of the
\* batch is never handed to the environment and no further iteration starts.
C1_DispatchStopsAtTermination ==
    [][(Top.mode = "live" /\ Top.done)
          => /\ Top.pc # "dispatch"
             /\ env_steps' = env_steps
             /\ queries' = queries]_vars

\* The batch ls, submit, ls of a live run: the first two parts were handed to
\* the environment, the second being the submit, and run() returned.
C1_Witness ==
    /\ cfg.checkpoint = NoCheckpoint
    /\ result.returned
    /\ Len(result.trajectory) = 1
    /\ result.trajectory[1].action = T_BATCH
    /\ Len(env_steps) = 2
    /\ env_steps[1] = [action |-> LS \o <<NL>>, done |-> FALSE]
    /\ env_steps[2].action = SUBMIT

\* C2: when check_format_and_requery gives up after format errors alone, it has
\* parsed exactly 3 outputs and asked the model again exactly 2 times.
C2_SentinelAfterTwoRequeries ==
    \A i \in 1..Len(frames) :
       (/\ frames[i].pc = "check"
        /\ ~retry_allowed(frames[i].format_fails, frames[i].blocklist_fails)
        /\ frames[i].blocklist_fails = 0)
          => frames[i].parses = 3 /\ frames[i].requeries = 2

\* The runtime whose live iteration has just handed the sentinel of the format
\* exit to the environment, or has recorded that iteration.
FormatExitIteration(f) ==
    /\ f.mode = "live"
    /\ f.action = EXIT_FORMAT
    /\ f.pc = "record" \/ (f.pc = "loop" /\ f.iters > 0)

FatalQueryExceptions ==
    {"RuntimeError", "ContextWindowExceededError", "CostLimitExceededError", "RetryError"}

SentinelOf(exc) ==
    IF exc = "RuntimeError" THEN EXIT_ERROR
    ELSE IF exc = "ContextWindowExceededError" THEN EXIT_CONTEXT
    ELSE IF exc = "CostLimitExceededError" THEN EXIT_COST
    ELSE EXIT_API

\* C4 as claimed, for the nonzero return code: a RuntimeError never leaves
\* run().
C4_RuntimeErrorNeverLeavesRun == raised # "RuntimeError"

\* C4 amended: a failure of a model query other than the interrupt becomes the
\* sentinel action of its iteration, never leaves run(), and the iteration
\* records a step with that action and saves the trajectory.
C4_QueryFailuresBecomeSentinels ==
    /\ raised \notin (FatalQueryExceptions \ {"RuntimeError"})
    /\ \A i \in 1..Len(frames) :
          LET f == frames[i]
          IN  f.query_exc \in FatalQueryExceptions
                 => /\ f.action = SentinelOf(f.query_exc)
                    /\ f.pc \in {"dispatch", "record", "loop", "returned"}
                    /\ f.pc \in {"loop", "returned"}
                          => /\ Len(f.trajectory) > 0
                             /\ f.trajectory[Len(f.trajectory)].action = f.action
                             /\ f.traj_dir => (saved.written /\ saved.trajectory = f.trajectory)

\* The cost limit was exceeded in a query, and run() returned a trajectory
\* that ends with the step of exit_cost and is saved.
C4_Witness ==
    /\ Top.query_exc = "CostLimitExceededError"
    /\ result.returned
    /\ result.trajectory[Len(result.trajectory)].action = EXIT_COST
    /\ saved.trajectory = result.trajectory

\* C5: an interrupt raised in a query, a parse, a re-query or the setup of the
\* environment variables leaves run() of every runtime on the stack as
\* KeyboardInterrupt; no runtime goes on and none returns.
C5_InterruptAlwaysReraised ==
    (\E i \in 1..Len(frames) : frames[i].interrupted)
       => /\ raised = "KeyboardInterrupt"
          /\ \A j \in 1..Len(frames) : frames[j].pc = "raised"
          /\ ~result.returned

\* The interrupt arrived in a subroutine and left run() of it and of its caller.
C5_Witness ==
    /\ Depth = 2
    /\ frames[2].interrupted
    /\ raised = "KeyboardInterrupt"

\* The recorded steps a checkpoint load keeps: all but those of exit_cost.
KeptSteps == SelectSeq(cfg.checkpoint.trajectory, LAMBDA st : st.action # EXIT_COST)

\* C6: whenever the root is about to query the model or has ended its loop,
\* its trajectory holds one step for each completed iteration after the
\* replayed ones, and the saved trajectory is that trajectory.
C6_StepRecordedAndSavedEachIteration ==
    (frames[1].pc \in {"loop", "returned"} /\ frames[1].traj_dir)
       => /\ Len(frames[1].trajectory) = Len(KeptSteps) + frames[1].iters
          /\ saved.trajectory = frames[1].trajectory
          /\ frames[1].iters > 0 => saved.written

\* One iteration is complete and saved, and the loop goes on.
C6_Witness ==
    /\ frames[1].pc = "loop"
    /\ ~frames[1].done
    /\ frames[1].iters = 1
    /\ saved.written
    /\ Len(saved.trajectory) = 1

\* C7: while the root replays its checkpoint no model query has been answered,
\* also while a replayed subroutine call is on the stack.
C7_ReplayIssuesNoQuery ==
    frames[1].mode = "replay" => (queries = 0 /\ ~live)

\* A replayed step called a subroutine: its runtime is on the stack.
C7_Witness ==
    /\ frames[1].mode = "replay"
    /\ Depth = 2
    /\ frames[2].pc = "path"

\* C8 as claimed: once the replay has handed a submit to the environment,
\* nothing more is handed to the environment and the live loop is not entered.
C8_ReplayStopsAtSubmit ==
    [][(frames[1].mode = "replay" /\ frames[1].done)
          => (env_steps' = env_steps /\ ~live')]_vars

\* The history a checkpoint load keeps: one entry is cut off the end for each
\* recorded step of exit_cost.
KeptHistory ==
    SubSeq(cfg.checkpoint.history, 1,
           Len(cfg.checkpoint.history)
             - (Len(cfg.checkpoint.trajectory) - Len(KeptSteps)))

\* The root has completed the replay of its checkpoint and no live iteration.
ReplayCompleted ==
    /\ cfg.checkpoint # NoCheckpoint
    /\ frames[1].pc = "loop"
    /\ frames[1].iters = 0

\* C9 as claimed: after the replay the trajectory, the history and the stats
\* are those of the checkpoint.
C9_ReplayKeepsCheckpoint ==
    ReplayCompleted
       => /\ frames[1].trajectory = cfg.checkpoint.trajectory
          /\ frames[1].history = cfg.checkpoint.history
          /\ frames[1].stats = cfg.checkpoint.model_stats

\* C9 amended: after the replay the trajectory is the recorded steps without
\* those of exit_cost, the history is the checkpoint's without one trailing
\* entry for each of them, the stats are the checkpoint's and no model was
\* queried; the loop is done exactly when a submit was replayed; the steps of
\* the live loop come after the replayed ones.
C9_ReplayKeepsCheckpointButCostExits ==
    /\ ReplayCompleted
          => /\ frames[1].trajectory = KeptSteps
             /\ frames[1].history = KeptHistory
             /\ frames[1].stats = cfg.checkpoint.model_stats
             /\ frames[1].mode = "live"
             /\ queries = 0
             /\ frames[1].done
                   = (\E k \in 1..Len(env_steps) : Strip(env_steps[k].action) = SUBMIT)
    /\ (cfg.checkpoint # NoCheckpoint /\ frames[1].pc = "loop")
          => /\ Len(frames[1].trajectory) = Len(KeptSteps) + frames[1].iters
             /\ SubSeq(frames[1].trajectory, 1, Len(KeptSteps)) = KeptSteps

\* A checkpoint with a step of exit_cost was replayed and the live loop
\* recorded the next step.
C9_Witness ==
    /\ cfg.checkpoint # NoCheckpoint
    /\ Len(KeptSteps) < Len(cfg.checkpoint.trajectory)
    /\ frames[1].pc = "loop"
    /\ frames[1].iters = 1
    /\ Len(frames[1].trajectory) = Len(KeptSteps) + 1

\* The stats a run of the root starts from: the checkpoint's, or fresh ones.
InitialStats ==
    IF cfg.checkpoint = NoCheckpoint THEN reset_stats(-1) ELSE cfg.checkpoint.model_stats

C11_FailedInitAbortsCaller ==
    \A i \in 1..Len(frames) :
       frames[i].returncode # 0
          => /\ i = Len(frames)
             /\ raised = "RuntimeError"
             /\ frames[i].pc = "raised"
             /\ frames[i].message
                   = (IF /\ Len(env_steps) > 0
                         /\ env_steps[Len(env_steps)].action
                               = InitCommand(Head(frames[i].queue).args)
                      THEN OBS ELSE None)

\* The initialization of sub_a was run, ended with a nonzero return code, and
\* the caller raised with its output.
C11_Witness ==
    /\ Top.returncode = 1
    /\ Top.message = OBS
    /\ raised = "RuntimeError"
    /\ Depth = 1

C14_GuardIdempotent ==
    text.pc = "reguarded" => text.reguarded = text.guarded

\* C15: the guarded text of one complete edit block, split under the pattern
\* type multi_line, is exactly one action, which covers the whole block.
C15_MultiLineSplitReturnsTheBlock ==
    (/\ text.pc = "split"
     /\ text.action = T_EDIT
     /\ text.pattern_type = "multi_line")
       => /\ Len(text.split) = 1
          /\ text.split[1].action = text.guarded

\* The characters of a text that are not white space, in their order.
Ink(t) == SelectSeq(t, LAMBDA c : ~IsWs(c))

\* The action fields of split actions, one after the other.
RECURSIVE ActionsOf(_)
ActionsOf(parsed) ==
    IF Len(parsed) = 0 THEN << >> ELSE Head(parsed).action \o ActionsOf(Tail(parsed))

\* split_actions returned: _get_first_match raised nothing.
Returned(parsed) == \A i \in 1..Len(parsed) : parsed[i].cmd_name # <<"raise">>

\* C16: whenever split_actions returns for a guarded text, its actions are in
\* the order of the text and nothing is lost or doubled: the action fields,
\* one after the other, hold the characters of the text that are not white
\* space, in their order, and no action is blank.
C16_SplitKeepsTheText ==
    (text.pc = "split" /\ Returned(text.split))
       => /\ Ink(ActionsOf(text.split)) = Ink(text.guarded)
          /\ \A i \in 1..Len(text.split) : NonBlank(text.split[i].action)

C16_Witness ==
    /\ text.pc = "split"
    /\ text.pattern_type = "subroutine"
    /\ Len(text.split) = 2
    /\ text.split[1].agent = MAIN
    /\ text.split[2].agent = SUB_A
    /\ text.split[1].action = LS \o <<NL>>

\* The leading token of a text: the empty text for a blank one.
LeadingToken(t) == IF NonBlank(t) THEN FirstWord(t) ELSE << >>

\* C17: an action is blocked exactly when its leading token is in the general
\* blocklist, or is in the standalone blocklist and is the whole trimmed
\* action; a blank action is never blocked.
C17_BlockedExactlyByTheLists ==
    text.pc = "blocked"
       => /\ text.blocked
             <=> \/ LeadingToken(text.action) \in blocklist
                 \/ /\ LeadingToken(text.action) \in blocklist_standalone
                    /\ Strip(text.action) = LeadingToken(text.action)
          /\ ~NonBlank(text.action) => ~text.blocked

\* A standalone name with arguments went through, unblocked.
C17_Witness ==
    /\ text.pc = "blocked"
    /\ text.action = PYTHON \o <<SP>> \o LS
    /\ ~text.blocked

\* C18: one set of templates is chosen, by precedence: the instance template,
\* followed by the strategy template when there is one, after the system
\* message or a demo entry; else the no-output template for a null or blank
\* observation; else the codegraph template when a codegraph context is
\* active; else the next-step template.
C18_TemplateByPrecedence ==
    text.pc = "templates"
       => LET first == text.last.role = "system" \/ IsDemo(text.last)
              blank == text.observation = None \/ Strip(text.observation) = << >>
              graph == text.codegraph_context.active
              strategy == IF text.strategy_template = None
                          THEN << >> ELSE <<"strategy">>
          IN  /\ first => text.templates = <<"instance">> \o strategy
              /\ (~first /\ blank) => text.templates = <<"no_output">>
              /\ (~first /\ ~blank /\ graph) => text.templates = <<"codegraph">>
              /\ (~first /\ ~blank /\ ~graph) => text.templates = <<"next_step">>

\* A blank observation with an active codegraph context: the no-output
\* template won.
C18_Witness ==
    /\ text.pc = "templates"
    /\ text.last.role = "assistant"
    /\ text.observation = <<SP, NL>>
    /\ text.codegraph_context.active
    /\ text.templates = <<"no_output">>

\* C19: the format failures and the blocklist failures draw on one budget.
\* When check_format_and_requery returns an action without an exception of
\* the model, every output parsed before failed, in one class or the other; if
\* fewer than 3 outputs were parsed before, the output at hand parses and is
\* not blocked and is the action returned, as the third output parsed at most;
\* if 3 were parsed, the sentinel of the format exit is returned.
C19_OneBudgetOfThreeParses ==
    [][\A i \in 1..Len(frames) :
          (/\ frames[i].pc = "check"
           /\ i <= Len(frames')
           /\ frames'[i].pc \notin {"check", "raised"}
           /\ frames'[i].query_exc = "none")
             => LET f == frames[i]
                IN  /\ f.parses = f.format_fails + f.blocklist_fails
                    /\ f.parses <= 3
                    /\ IF f.parses < 3
                       THEN /\ f.output_parses
                            /\ ~should_block_action(f.output_action)
                            /\ frames'[i].action = f.output_action
                       ELSE frames'[i].action = EXIT_FORMAT]_vars

\* Three outputs were parsed: one failed to parse and two were blocked.
C19_Witness ==
    /\ Top.pc = "check"
    /\ Top.parses = 3
    /\ Top.format_fails = 1
    /\ Top.blocklist_fails = 2
    /\ ~retry_allowed(Top.format_fails, Top.blocklist_fails)

\* The entries of a history that are assistant turns of the given runtime.
OwnAssistantTurns(history, name) ==
    {k \in 1..Len(history) : history[k].role = "assistant" /\ history[k].agent = name}

C21_RunWithoutTrajDirGoesOn ==
    (Depth > 0 /\ ~Top.traj_dir /\ Top.pc = "raised")
       => raised # "TypeError"

\* C22: between the iterations of a live run without checkpoint, the action of
\* each recorded step is the action of the assistant turn of its iteration.
C22_StepRecordsTheValidatedAction ==
    \A i \in 1..Len(frames) :
       LET f == frames[i]
       IN  (f.mode = "live" /\ ~f.use_checkpoint /\ f.pc = "loop")
              => \A k \in 1..Len(f.trajectory) :
                    f.trajectory[k].action = f.history[2 * k + 1].action

\* C23: when the live loop takes over from a replay that dispatched recorded
\* steps and did not end the run, the observation its first query is given is
\* one the replay produced, not the observation argument of run().
C23_LiveResumesWithReplayedObservation ==
    \A i \in 1..Len(frames) :
       LET f == frames[i]
       IN  (/\ f.use_checkpoint /\ f.mode = "live" /\ f.pc = "loop"
            /\ f.iters = 0 /\ ~f.done
            /\ Len(f.trajectory) > 0)
              => f.observation # INITIAL_OBS

\* The characters of s are found in t, in their order.
RECURSIVE PreservedIn(_, _)
PreservedIn(s, t) ==
    IF Len(s) = 0 THEN TRUE
    ELSE IF Len(t) = 0 THEN FALSE
    ELSE IF Head(s) = Head(t) THEN PreservedIn(Tail(s), Tail(t))
    ELSE PreservedIn(s, Tail(t))

\* C24: the guard only adds: every character of the action that is not white
\* space, the command names and the end markers among them, is found in the
\* guarded text, in the order of the action.
C24_GuardPreservesTheText ==
    text.pc = "guarded" => PreservedIn(Ink(text.action), Ink(text.guarded))

\* C25: the submit command is never delegated.  Every split action that is a
\* match of the submit command belongs to the runtime that split it and names
\* the submit command, and the split action a runtime is about to hand to
\* call_subroutine is never one of the submit command, in the live loop and
\* in the replay.
C25_SubmitNeverDelegated ==
    \A i \in 1..Len(frames) :
       LET f == frames[i]
       IN  /\ \A k \in 1..Len(f.queue) :
                (Strip(f.queue[k].action) = submit_command
                    \/ f.queue[k].cmd_name = submit_command)
                   => /\ f.queue[k].agent = f.name
                      /\ f.queue[k].cmd_name = submit_command
                      /\ Strip(f.queue[k].action) = submit_command
           /\ f.pc \in {"call", "in_call"}
                 => /\ Head(f.queue).cmd_name # submit_command
                    /\ Head(f.queue).agent \in SubroutineNames

\* The replay handed a submit to env.step.
C25_Witness ==
    /\ Top.mode = "replay"
    /\ Top.done
    /\ Len(env_steps) > 0
    /\ Strip(env_steps[Len(env_steps)].action) = submit_command
    /\ Depth = 1

\* The root is past the load of its checkpoint.
Loaded == frames[1].pc \notin {"start", "setup", "path", "load", "raised"}

\* C26: for a checkpoint whose last recorded action is exit_cost: when the last
\* entry of its history is the assistant turn of exit_cost, the load does not
\* fail, no step of exit_cost is replayed and the history has lost that entry;
\* when it is not, the run ends at the load with an AssertionError and nothing
\* was handed to the environment.
C26_TrailingCostExitDropped ==
    LET c == cfg.checkpoint
        n == Len(c.trajectory)
        h == c.history
        paired == /\ Len(h) > 0
                  /\ h[Len(h)].role = "assistant"
                  /\ h[Len(h)].action = EXIT_COST
    IN  (n > 0 /\ c.trajectory[n].action = EXIT_COST)
           => IF paired
              THEN /\ raised # "AssertionError"
                   /\ Loaded => /\ \A k \in 1..Len(frames[1].steps) :
                                      frames[1].steps[k].action # EXIT_COST
                                /\ Len(frames[1].trajectory) >= Len(KeptSteps)
                                /\ SubSeq(frames[1].trajectory, 1, Len(KeptSteps))
                                      = KeptSteps
                   /\ ReplayCompleted => Len(frames[1].history) = Len(h) - 1
              ELSE /\ ~Loaded
                   /\ env_steps = << >>
                   /\ (frames[1].pc = "raised" /\ cfg.traj_dir /\ Len(frames[1].history) > 0)
                         => raised = "AssertionError"

\* C27: the codegraph context lives for one step.  Between the iterations of
\* the root, the prompt of a live iteration was rendered from the codegraph
\* template only if the iteration before it was a live one whose action held
\* the retrieval command, and a context is active only if the iteration that
\* has just ended held the retrieval command: the query of each iteration
\* resets what the iteration before it retrieved.
C27_CodegraphContextLastsOneStep ==
    frames[1].pc = "loop"
       => LET f == frames[1]
              base == Len(f.history) - 2 * f.iters
              Prompt(j) == f.history[base + 2 * j - 1]
              Answer(j) == f.history[base + 2 * j]
          IN  /\ \A j \in 1..f.iters :
                    (Prompt(j).role = "user" /\ Prompt(j).content = "codegraph")
                       => /\ j > 1
                          /\ Contains(Answer(j - 1).action, SEARCH_REPO)
              /\ f.codegraph_context.active
                    => /\ f.iters > 0
                       /\ Contains(Answer(f.iters).action, SEARCH_REPO)

\* The first iteration retrieved, the second was prompted with the codegraph
\* template and left no context behind.
C27_Witness ==
    /\ frames[1].pc = "loop"
    /\ frames[1].iters = 2
    /\ ~frames[1].use_checkpoint
    /\ frames[1].history[3].action = T_SEARCH
    /\ frames[1].history[4].content = "codegraph"
    /\ ~frames[1].codegraph_context.active
====
